---- MODULE Spec2Model ----
(***************************************************************************)
(* Narration playback sequencer of TourMapScreen                           *)
(* (src/src/screens/TourMapScreen.tsx): handleSelectStop, playFrom,        *)
(* togglePlayback, stopPlayback and the completion / error callbacks that  *)
(* the speech engine delivers asynchronously.                              *)
(*                                                                         *)
(* Text is a sequence of one-character strings.  A JavaScript array index  *)
(* i is kept as in the source (0-based); the element it denotes is the     *)
(* TLA+ sequence element i + 1.                                            *)
(***************************************************************************)
EXTENDS Integers, Sequences, FiniteSets, TLC

\* ------------------------------------------------------------------ bounds
\* Largest number of utterances and callbacks in flight at which the user
\* still presses a button.
MaxPending == 2

\* Longest description the segmentation is run on.
MaxLen == 4

\* ------------------------------------------------------------------- stops
NoStop == "none"

\* A stop without description (description?: string)
NoDescription == <<"undefined">>

\* The characters of the descriptions the segmentation is run on: letters,
\* the three terminators and white space.
Alphabet == {"a", "b", ".", "!", "?", " "}

Descriptions ==
  UNION {[1..n -> Alphabet] : n \in 0..MaxLen} \cup {NoDescription}

Stops == {"s1", "s2", "s3"}

\* stop.title
Title(stop) ==
  CASE stop = "s1" -> <<"A">>
    [] stop = "s2" -> <<"B">>
    [] stop = "s3" -> <<"C">>

\* stop.description as stored by fetchStops (description || "")
Description(stop) ==
  CASE stop = "s1" -> <<"a", ".", " ", "b", "!", " ", "c", "?">>
    [] stop = "s2" -> <<" ", "d", ".", " ", "e", ".">>
    [] stop = "s3" -> <<>>

\* "Sin descripción disponible."
Placeholder ==
  <<"S","i","n"," ","d","e","s","c","r","i","p","c","i","o","n"," ",
    "d","i","s","p","o","n","i","b","l","e",".">>

\* ------------------------------------------------------------ segmentation
IsTerm(c) == c \in {".", "!", "?"}

IsSpace(c) == c = " "

\* String.prototype.trim
Trim(s) ==
  LET keep == {i \in 1..Len(s) : ~IsSpace(s[i])}
  IN  IF keep = {} THEN <<>>
      ELSE LET lo == CHOOSE i \in keep : \A j \in keep : i <= j
               hi == CHOOSE i \in keep : \A j \in keep : j <= i
           IN  SubSeq(s, lo, hi)

\* Least index in p..Len(s) whose character is (isTerm = TRUE) or is not
\* (isTerm = FALSE) a terminator; Len(s) + 1 when there is none.
ScanTo(s, p, isTerm) ==
  LET hit == {i \in p..Len(s) : IsTerm(s[i]) = isTerm}
  IN  IF hit = {} THEN Len(s) + 1
      ELSE CHOOSE i \in hit : \A j \in hit : i <= j

\* fullText.match(/[^.!?]+[.!?]+/g), scanning from position p: the matches
\* in order, <<>> for null.
RECURSIVE MatchFrom(_, _)
MatchFrom(s, p) ==
  IF p > Len(s) THEN <<>>
  ELSE IF IsTerm(s[p]) THEN MatchFrom(s, p + 1)
  ELSE LET q == ScanTo(s, p, TRUE)
       IN  IF q > Len(s) THEN <<>>
           ELSE LET r == ScanTo(s, q, FALSE)
                IN  <<SubSeq(s, p, r - 1)>> \o MatchFrom(s, r)

\* cleanChunks without the trim of each chunk
RECURSIVE TrimAndFilter_noTrim(_)
TrimAndFilter_noTrim(chunks) ==
  IF chunks = <<>> THEN <<>>
  ELSE (IF Len(Head(chunks)) > 0 THEN <<Head(chunks)>> ELSE <<>>)
         \o TrimAndFilter_noTrim(Tail(chunks))

\* chunks.map(c => c.trim()).filter(c => c.length > 0)
RECURSIVE TrimAndFilter(_)
TrimAndFilter(chunks) ==
  IF chunks = <<>> THEN <<>>
  ELSE LET c == Trim(Head(chunks))
       IN  (IF Len(c) > 0 THEN <<c>> ELSE <<>>) \o TrimAndFilter(Tail(chunks))

\* cleanChunks without the placeholder for a blank description
CleanChunks_noPlaceholder(text) ==
  LET fullText == IF text = NoDescription THEN <<>> ELSE Trim(text)
      matched  == MatchFrom(fullText, 1)
      chunks   == IF matched = <<>> THEN <<fullText>> ELSE matched
  IN  TrimAndFilter(chunks)

\* cleanChunks without the || [fullText] for a text the regex does not match
CleanChunks_noFallback(text) ==
  LET trimmed  == IF text = NoDescription THEN <<>> ELSE Trim(text)
      fullText == IF trimmed = <<>> THEN Placeholder ELSE trimmed
  IN  TrimAndFilter(MatchFrom(fullText, 1))

\* cleanChunks of handleSelectStop for a description
CleanChunks(text) ==
  LET trimmed  == IF text = NoDescription THEN <<>> ELSE Trim(text)
      fullText == IF trimmed = <<>> THEN Placeholder ELSE trimmed
      matched  == MatchFrom(fullText, 1)
      chunks   == IF matched = <<>> THEN <<fullText>> ELSE matched
  IN  TrimAndFilter(chunks)

\* initialText without the title
InitialText_noTitle(stop, cleanChunks) ==
  IF Len(cleanChunks) > 0 THEN cleanChunks[1] ELSE <<>>

\* `${stop.title}. ${cleanChunks[0] || ""}`
InitialText(stop, cleanChunks) ==
  Title(stop) \o <<".", " ">> \o
    (IF Len(cleanChunks) > 0 THEN cleanChunks[1] ELSE <<>>)

\* ------------------------------------------------------------------- state
VARIABLES
  description,     \* stop.description of the stop handed to handleSelectStop
  selectedStop,    \* useState selectedStop (NoStop for null)
  sentences,       \* useState sentences
  currentIdx,      \* useState currentIdx
  isSpeaking,      \* useState isSpeaking
  isPaused,        \* useState isPaused
  isPausedRef,     \* isPausedRef.current
  currentIdxRef,   \* currentIdxRef.current
  engine,          \* utterances given to Speech.speak and not yet finished,
                   \* failed or cancelled, in the order they were queued
  enginePaused,    \* the engine is suspended by Speech.pause
  pauseSupported,  \* the platform implements Speech.pause
  events,          \* onDone / onError callbacks the engine has emitted and
                   \* the UI thread has not run yet, in order
  last,            \* history: the handler or callback that ran last
  pausedUnit,      \* history: <<unit>> the engine was speaking when pause was
                   \* last pressed in this narration (<<>>: none)
  failed,          \* history: an error callback of the current narration ran
                   \* since the last user action
  clean,           \* history: nothing but completions since the last selection
  spoken,          \* history: texts issued since the last selection (clean only)
  mounted          \* the screen is mounted (the effect cleanup has not run)

vars == <<description, selectedStop, sentences, currentIdx, isSpeaking, isPaused,
          isPausedRef, currentIdxRef, engine, enginePaused, pauseSupported,
          events, last, pausedUnit, failed, clean, spoken, mounted>>

\* An utterance: the text given to Speech.speak and what its callbacks
\* captured (which speak call registered them, array and index).  stale is
\* history: the utterance belongs to a narration that a later
\* handleSelectStop or stopPlayback has ended.
Utterance(text, kind, array, index, stale) ==
  [text |-> text, kind |-> kind, array |-> array, index |-> index,
   stale |-> stale]

\* The label of the play button: the playback state the user sees.
State ==
  IF isPaused THEN "Paused" ELSE IF isSpeaking THEN "Speaking" ELSE "Idle"

\* The value of last after a step: which handler or callback ran (op), the
\* texts it gave to Speech.speak (spoke), whether it raised an Alert (alert),
\* whether it was a callback of an ended narration (stale), and the rendered
\* state it started from (pre).  call is the call of playFrom it made, if
\* any: the length of the array and the index it passed.
Did(op, spoke, alert, stale) ==
  [op |-> op, spoke |-> spoke, alert |-> alert, stale |-> stale,
   pre |-> [state |-> State, isSpeaking |-> isSpeaking, idx |-> currentIdx],
   call |-> <<>>]

Called(did, array, index) ==
  [did EXCEPT !.call = <<[len |-> Len(array), index |-> index]>>]

Texts(speak) == [i \in 1..Len(speak) |-> speak[i].text]

Init ==
  /\ description = <<>>
  /\ selectedStop = NoStop
  /\ sentences = <<>>
  /\ currentIdx = 0
  /\ isSpeaking = FALSE
  /\ isPaused = FALSE
  /\ isPausedRef = FALSE
  /\ currentIdxRef = 0
  /\ engine = <<>>
  /\ enginePaused = FALSE
  /\ pauseSupported \in BOOLEAN
  /\ events = <<>>
  /\ last = Did("init", <<>>, FALSE, FALSE)
  /\ pausedUnit = <<>>
  /\ failed = FALSE
  /\ clean = FALSE
  /\ spoken = <<>>
  /\ mounted = TRUE

\* Callbacks already emitted outlive Speech.stop; the narration they belong
\* to is over.
MarkStale(evs) == [i \in 1..Len(evs) |-> [evs[i] EXCEPT !.stale = TRUE]]

\* spoken after a step of a callback that issued the utterances in speak
Logged(speak) ==
  IF clean THEN spoken \o Texts(speak) ELSE <<>>

\* ------------------------------------------------------------------ playFrom
\* playFrom(array, index) run with isPausedRef.current = pausedRef: the
\* values it leaves in isSpeaking, currentIdx and currentIdxRef, and the
\* utterance it gives to Speech.speak (none: <<>>).
\* playFrom without the setIsSpeaking(false) at the end of the array
playFrom_keepsSpeaking(array, index, pausedRef, stale) ==
  IF index >= Len(array) \/ pausedRef
    THEN [isSpeaking    |-> isSpeaking,
          currentIdx    |-> currentIdx,
          currentIdxRef |-> currentIdxRef,
          speak         |-> <<>>]
    ELSE [isSpeaking    |-> isSpeaking,
          currentIdx    |-> index,
          currentIdxRef |-> index,
          speak         |-> <<Utterance(Trim(array[index + 1]), "unit",
                                        array, index, stale)>>]

playFrom(array, index, pausedRef, stale) ==
  IF index >= Len(array) \/ pausedRef
    THEN [isSpeaking    |-> IF index >= Len(array) THEN FALSE ELSE isSpeaking,
          currentIdx    |-> currentIdx,
          currentIdxRef |-> currentIdxRef,
          speak         |-> <<>>]
    ELSE [isSpeaking    |-> isSpeaking,
          currentIdx    |-> index,
          currentIdxRef |-> index,
          speak         |-> <<Utterance(Trim(array[index + 1]), "unit",
                                        array, index, stale)>>]

\* ------------------------------------------------------------- user actions
\* handleSelectStop with the reset of currentIdxRef left out
handleSelectStop_keepsCursorRef(stop) ==
  LET cleanChunks == CleanChunks(Description(stop))
      opening == Utterance(InitialText(stop, cleanChunks), "opening",
                           cleanChunks, 0, FALSE)
  IN  /\ mounted
      /\ Len(events) < MaxPending
      /\ selectedStop' = stop
      /\ sentences' = cleanChunks
      /\ currentIdx' = 0
      /\ currentIdxRef' = currentIdxRef
      /\ isSpeaking' = TRUE
      /\ isPaused' = FALSE
      /\ isPausedRef' = FALSE
      /\ engine' = <<opening>>
      /\ enginePaused' = FALSE
      /\ events' = MarkStale(events)
      /\ last' = Did("handleSelectStop", <<opening.text>>, FALSE, FALSE)
      /\ pausedUnit' = <<>>
      /\ failed' = FALSE
      /\ clean' = (events = <<>>)
      /\ spoken' = IF events = <<>> THEN <<opening.text>> ELSE <<>>
      /\ description' = Description(stop)
      /\ UNCHANGED <<pauseSupported, mounted>>

\* handleSelectStop for a stop whose description is text
handleSelectStopWith(stop, text) ==
  LET cleanChunks == CleanChunks(text)
      opening == Utterance(InitialText(stop, cleanChunks), "opening",
                           cleanChunks, 0, FALSE)
  IN  /\ mounted
      /\ Len(events) < MaxPending
      /\ selectedStop' = stop
      /\ sentences' = cleanChunks
      /\ currentIdx' = 0
      /\ currentIdxRef' = 0
      /\ isSpeaking' = TRUE
      /\ isPaused' = FALSE
      /\ isPausedRef' = FALSE
      /\ engine' = <<opening>>
      /\ enginePaused' = FALSE
      /\ events' = MarkStale(events)
      /\ last' = Did("handleSelectStop", <<opening.text>>, FALSE, FALSE)
      /\ pausedUnit' = <<>>
      /\ failed' = FALSE
      /\ clean' = (events = <<>>)
      /\ spoken' = IF events = <<>> THEN <<opening.text>> ELSE <<>>
      /\ description' = text
      /\ UNCHANGED <<pauseSupported, mounted>>

handleSelectStop(stop) == handleSelectStopWith(stop, Description(stop))

\* togglePlayback with isPaused true: resume
Resume ==
  LET r == playFrom(sentences, currentIdxRef, FALSE, FALSE)
  IN  /\ isPaused
      /\ Len(engine) + Len(events) < MaxPending
      /\ isPaused' = FALSE
      /\ isPausedRef' = FALSE
      /\ isSpeaking' = r.isSpeaking
      /\ currentIdx' = r.currentIdx
      /\ currentIdxRef' = r.currentIdxRef
      /\ engine' = engine \o r.speak
      /\ last' = Called(Did("resume", Texts(r.speak), FALSE, FALSE),
                         sentences, currentIdxRef)
      /\ UNCHANGED pausedUnit
      /\ UNCHANGED <<sentences, enginePaused>>

\* The pause branch without isPausedRef.current = true
Pause_keepsRef ==
  /\ ~isPaused
  /\ isPaused' = TRUE
  /\ isPausedRef' = isPausedRef
  /\ enginePaused' = (enginePaused \/ (pauseSupported /\ engine # <<>>))
  /\ last' = Did("pause", <<>>, FALSE, FALSE)
  /\ pausedUnit' = IF engine # <<>> /\ ~Head(engine).stale
                     THEN <<Head(engine).array[Head(engine).index + 1]>>
                     ELSE <<>>
  /\ UNCHANGED <<sentences, isSpeaking, currentIdx, currentIdxRef, engine>>

\* togglePlayback with isPaused false: pause
Pause ==
  /\ ~isPaused
  /\ isPaused' = TRUE
  /\ isPausedRef' = TRUE
  /\ enginePaused' = (enginePaused \/ (pauseSupported /\ engine # <<>>))
  /\ last' = Did("pause", <<>>, FALSE, FALSE)
  /\ pausedUnit' = IF engine # <<>> /\ ~Head(engine).stale
                     THEN <<Head(engine).array[Head(engine).index + 1]>>
                     ELSE <<>>
  /\ UNCHANGED <<sentences, isSpeaking, currentIdx, currentIdxRef, engine>>

\* The play button is rendered only while a stop is selected.
togglePlayback ==
  /\ mounted
  /\ selectedStop # NoStop
  /\ Resume \/ Pause
  /\ failed' = FALSE
  /\ clean' = FALSE
  /\ spoken' = <<>>
  /\ UNCHANGED <<description, selectedStop, pauseSupported, events, mounted>>

\* The stop button is rendered only while a stop is selected.
stopPlayback ==
  /\ mounted
  /\ selectedStop # NoStop
  /\ engine' = <<>>
  /\ enginePaused' = FALSE
  /\ isSpeaking' = FALSE
  /\ isPaused' = FALSE
  /\ selectedStop' = NoStop
  /\ sentences' = <<>>
  /\ currentIdx' = 0
  /\ events' = MarkStale(events)
  /\ last' = Did("stopPlayback", <<>>, FALSE, FALSE)
  /\ pausedUnit' = <<>>
  /\ failed' = FALSE
  /\ clean' = FALSE
  /\ spoken' = <<>>
  /\ UNCHANGED <<description, isPausedRef, currentIdxRef, pauseSupported,
                 mounted>>

\* The cleanup of the mount effect, run when the screen is unmounted:
\* Speech.stop() and nothing else.  The handlers are unreachable afterwards
\* (nothing is rendered); the callbacks already emitted still run, on the
\* state and the refs their closures hold.
Unmount ==
  /\ mounted
  /\ mounted' = FALSE
  /\ engine' = <<>>
  /\ enginePaused' = FALSE
  /\ events' = MarkStale(events)
  /\ last' = Did("unmount", <<>>, FALSE, FALSE)
  /\ clean' = FALSE
  /\ spoken' = <<>>
  /\ UNCHANGED <<description, selectedStop, sentences, currentIdx, isSpeaking,
                 isPaused, isPausedRef, currentIdxRef, pauseSupported,
                 pausedUnit, failed>>

\* ------------------------------------------------------------------- engine
\* The engine finishes (outcome "done") or fails (outcome "error") the
\* utterance at the head of its queue and emits the callback; the UI thread
\* runs it later.
EngineFinish(outcome) ==
  /\ engine # <<>>
  /\ ~enginePaused
  /\ engine' = Tail(engine)
  /\ events' = Append(events, [text    |-> Head(engine).text,
                               kind    |-> Head(engine).kind,
                               array   |-> Head(engine).array,
                               index   |-> Head(engine).index,
                               stale   |-> Head(engine).stale,
                               outcome |-> outcome])
  /\ UNCHANGED <<description, selectedStop, sentences, currentIdx, isSpeaking, isPaused,
                 isPausedRef, currentIdxRef, enginePaused, pauseSupported,
                 last, pausedUnit, failed, clean, spoken, mounted>>

\* ---------------------------------------------------------------- callbacks
\* onDone of the opening utterance (handleSelectStop)
OpeningOnDone ==
  /\ events # <<>>
  /\ Head(events).kind = "opening"
  /\ Head(events).outcome = "done"
  /\ LET ev == Head(events)
         cleanChunks == ev.array
         r == IF Len(cleanChunks) > 1 /\ ~isPausedRef
                THEN playFrom(Tail(cleanChunks), 1, isPausedRef, ev.stale)
                ELSE [isSpeaking    |-> FALSE,
                      currentIdx    |-> currentIdx,
                      currentIdxRef |-> currentIdxRef,
                      speak         |-> <<>>]
     IN  /\ isSpeaking' = r.isSpeaking
         /\ currentIdx' = r.currentIdx
         /\ currentIdxRef' = r.currentIdxRef
         /\ engine' = engine \o r.speak
         /\ last' = IF Len(cleanChunks) > 1 /\ ~isPausedRef
                      THEN Called(Did("openingOnDone", Texts(r.speak), FALSE,
                                      ev.stale), Tail(cleanChunks), 1)
                      ELSE Did("openingOnDone", Texts(r.speak), FALSE,
                               ev.stale)
         /\ spoken' = Logged(r.speak)
  /\ events' = Tail(events)
  /\ UNCHANGED <<description, selectedStop, sentences, isPaused, isPausedRef,
                 enginePaused, pauseSupported, pausedUnit, failed, clean,
                 mounted>>

\* onDone of a unit utterance (playFrom)
PlayFromOnDone ==
  /\ events # <<>>
  /\ Head(events).kind = "unit"
  /\ Head(events).outcome = "done"
  /\ LET ev == Head(events)
         r == IF ~isPausedRef
                THEN playFrom(ev.array, ev.index + 1, isPausedRef, ev.stale)
                ELSE [isSpeaking    |-> isSpeaking,
                      currentIdx    |-> currentIdx,
                      currentIdxRef |-> currentIdxRef,
                      speak         |-> <<>>]
     IN  /\ isSpeaking' = r.isSpeaking
         /\ currentIdx' = r.currentIdx
         /\ currentIdxRef' = r.currentIdxRef
         /\ engine' = engine \o r.speak
         /\ last' = IF ~isPausedRef
                      THEN Called(Did("playFromOnDone", Texts(r.speak), FALSE,
                                      ev.stale), ev.array, ev.index + 1)
                      ELSE Did("playFromOnDone", Texts(r.speak), FALSE,
                               ev.stale)
         /\ spoken' = Logged(r.speak)
  /\ events' = Tail(events)
  /\ UNCHANGED <<description, selectedStop, sentences, isPaused, isPausedRef,
                 enginePaused, pauseSupported, pausedUnit, failed, clean,
                 mounted>>

\* onError of the opening utterance (handleSelectStop)
OpeningOnError ==
  /\ events # <<>>
  /\ Head(events).kind = "opening"
  /\ Head(events).outcome = "error"
  /\ events' = Tail(events)
  /\ last' = Did("openingOnError", <<>>, TRUE, Head(events).stale)
  /\ failed' = (failed \/ ~Head(events).stale)
  /\ clean' = FALSE
  /\ spoken' = <<>>
  /\ UNCHANGED <<description, selectedStop, sentences, currentIdx, isSpeaking, isPaused,
                 isPausedRef, currentIdxRef, engine, enginePaused,
                 pauseSupported, pausedUnit, mounted>>

\* onError of a unit utterance (playFrom)
PlayFromOnError ==
  /\ events # <<>>
  /\ Head(events).kind = "unit"
  /\ Head(events).outcome = "error"
  /\ events' = Tail(events)
  /\ isSpeaking' = FALSE
  /\ last' = Did("playFromOnError", <<>>, TRUE, Head(events).stale)
  /\ failed' = (failed \/ ~Head(events).stale)
  /\ clean' = FALSE
  /\ spoken' = <<>>
  /\ UNCHANGED <<description, selectedStop, sentences, currentIdx, isPaused, isPausedRef,
                 currentIdxRef, engine, enginePaused, pauseSupported,
                 pausedUnit, mounted>>

\* ------------------------------------------------------------ specification
Next ==
  \/ \E stop \in Stops : handleSelectStop(stop)
  \/ togglePlayback
  \/ stopPlayback
  \/ Unmount
  \/ \E outcome \in {"done", "error"} : EngineFinish(outcome)
  \/ OpeningOnDone
  \/ PlayFromOnDone
  \/ OpeningOnError
  \/ PlayFromOnError

Spec == Init /\ [][Next]_vars

\* ------------------------------------------- segmentation of any description
\* The screen as mounted, about to be handed a stop with any description
\* over Alphabet of at most MaxLen characters, or with none.
SegInit ==
  /\ description \in Descriptions
  /\ selectedStop = NoStop
  /\ sentences = <<>>
  /\ currentIdx = 0
  /\ isSpeaking = FALSE
  /\ isPaused = FALSE
  /\ isPausedRef = FALSE
  /\ currentIdxRef = 0
  /\ engine = <<>>
  /\ enginePaused = FALSE
  /\ pauseSupported \in BOOLEAN
  /\ events = <<>>
  /\ last = Did("init", <<>>, FALSE, FALSE)
  /\ pausedUnit = <<>>
  /\ failed = FALSE
  /\ clean = FALSE
  /\ spoken = <<>>
  /\ mounted = TRUE

\* The user selects that stop.
Segment ==
  /\ last.op = "init"
  /\ \E stop \in Stops : handleSelectStopWith(stop, description)

SegNext == Segment

SegSpec == SegInit /\ [][SegNext]_vars

\* ------------------------------------------------ one narration left to run
\* The user selects one stop and then touches nothing: the engine answers
\* every utterance it holds, with a completion or an error, and the UI
\* thread runs every callback it has queued.
Narrate ==
  /\ last.op = "init"
  /\ \E stop \in Stops : handleSelectStop(stop)

LiveNext ==
  \/ Narrate
  \/ Segment
  \/ \E outcome \in {"done", "error"} : EngineFinish(outcome)
  \/ OpeningOnDone
  \/ PlayFromOnDone
  \/ OpeningOnError
  \/ PlayFromOnError

LiveSpec ==
  /\ SegInit
  /\ [][LiveNext]_vars
  /\ WF_vars(\E outcome \in {"done", "error"} : EngineFinish(outcome))
  /\ WF_vars(OpeningOnDone)
  /\ WF_vars(PlayFromOnDone)
  /\ WF_vars(OpeningOnError)
  /\ WF_vars(PlayFromOnError)

\* ------------------------------------------------------------------- claims
DoneCallbacks == {"openingOnDone", "playFromOnDone"}

ErrorCallbacks == {"openingOnError", "playFromOnError"}

\* C1: after handleSelectStop the cursor is 0 (currentIdx and
\* currentIdxRef), the state is Speaking (isSpeaking, not isPaused, not
\* isPausedRef) and the script is the one built from the selected stop,
\* whatever the state, script and cursor were before.
C1_SelectStopResets ==
  last.op = "handleSelectStop" =>
    /\ currentIdx = 0 /\ currentIdxRef = 0
    /\ isSpeaking /\ ~isPaused /\ ~isPausedRef
    /\ State = "Speaking"
    /\ selectedStop \in Stops
    /\ sentences = CleanChunks(Description(selectedStop))
    /\ Len(sentences) >= 1
    /\ last.spoke = <<InitialText(selectedStop, sentences)>>

\* C1 happens: a stop is selected while another narration is paused at a
\* later unit.
C1_Witness ==
  /\ last.op = "handleSelectStop"
  /\ last.pre.state = "Paused"
  /\ last.pre.idx > 0
  /\ currentIdx = 0

\* C2: after stopPlayback the state is Idle, the cursor is 0 and the script
\* is empty, for the rendered values and for the values the callbacks and
\* togglePlayback read (currentIdxRef, isPausedRef).
C2_StopResetsAll ==
  last.op = "stopPlayback" =>
    /\ State = "Idle"
    /\ currentIdx = 0
    /\ sentences = <<>>
    /\ currentIdxRef = 0
    /\ ~isPausedRef

\* C3: togglePlayback in Speaking yields Paused, and in Paused yields
\* Speaking (isSpeaking, not isPaused), both with the cursor unchanged.
C3_ToggleSwitches ==
  /\ (last.op = "pause" /\ last.pre.state = "Speaking") =>
        (State = "Paused" /\ currentIdx = last.pre.idx)
  /\ (last.op = "resume" /\ last.pre.state = "Paused") =>
        (isSpeaking /\ ~isPaused /\ currentIdx = last.pre.idx)

\* C4: while a stop is selected, a completion callback of an utterance of
\* an earlier narration is a no-op: it issues no utterance and changes
\* neither the cursor nor the playback state.
C4_StaleDoneAfterSelectIsNoOp ==
  (mounted /\ last.op \in DoneCallbacks /\ last.stale /\ selectedStop # NoStop) =>
    /\ last.spoke = <<>>
    /\ currentIdx = last.pre.idx
    /\ State = last.pre.state
    /\ isSpeaking = last.pre.isSpeaking

\* C5: after stopPlayback, a completion callback of an utterance issued
\* before it is ignored: no utterance is issued, the state stays Idle, the
\* cursor 0 and the script empty.
C5_StaleDoneAfterStopIsNoOp ==
  (mounted /\ last.op \in DoneCallbacks /\ last.stale /\ selectedStop = NoStop) =>
    /\ last.spoke = <<>>
    /\ State = "Idle"
    /\ currentIdx = 0
    /\ sentences = <<>>

\* C6: at most one utterance is outstanding at the engine (requested and
\* not completed, failed or cancelled).
C6_OneUtteranceAtATime == Len(engine) <= 1

\* The units of sentences at indices 1 .. n-1, as playFrom gives them to
\* the engine.
RestOfScript == [i \in 1..(Len(sentences) - 1) |-> Trim(sentences[i + 1])]

\* C7: in a narration with no pause, stop, re-selection or error, the
\* units spoken after the opening utterance are those at indices 1 .. n-1
\* in order, each once, and the state is Idle only after the last of them
\* has completed.
C7_SpeaksEveryUnitInOrder ==
  clean =>
    /\ Len(spoken) >= 1
    /\ \E k \in 0..Len(RestOfScript) :
          Tail(spoken) = SubSeq(RestOfScript, 1, k)
    /\ State = "Idle" =>
          (Tail(spoken) = RestOfScript /\ engine = <<>> /\ events = <<>>)

\* C8: an engine error callback, of the opening utterance or of a unit,
\* raises a notice and leaves the state Idle.
C8_ErrorForcesIdle ==
  (last.op \in ErrorCallbacks /\ ~last.stale) => (last.alert /\ ~isSpeaking)

\* C9: after an error callback no utterance is issued until the user acts.
C9_NoUtteranceAfterError ==
  failed => last.spoke = <<>>

\* C10: the completion callback of the unit that was being spoken when the
\* state became Paused issues no utterance and leaves the cursor and the
\* Paused state (both flags) unchanged.
C10_DoneWhilePausedKeepsState ==
  (last.op \in DoneCallbacks /\ ~last.stale /\ last.pre.state = "Paused") =>
    /\ last.spoke = <<>>
    /\ currentIdx = last.pre.idx
    /\ isPaused
    /\ isSpeaking = last.pre.isSpeaking

\* C11: the utterance issued by a resume is the unit of the script at the
\* cursor, and it is the unit that was being spoken when pause was pressed.
C11_ResumeReissuesPausedUnit ==
  (last.op = "resume" /\ last.pre.state = "Paused") =>
    /\ currentIdx < Len(sentences)
    /\ last.spoke = <<Trim(sentences[currentIdx + 1])>>
    /\ pausedUnit # <<>> => last.spoke = pausedUnit

\* C12: whenever the state is not Idle, 0 <= cursor < length of the script.
C12_CursorInRange ==
  State # "Idle" => (0 <= currentIdx /\ currentIdx < Len(sentences))

\* C13: a unit utterance of the current narration that is outstanding has
\* the text of the unit at the cursor, sentences[currentIdx].
C13_SpokenUnitIsHighlighted ==
  \A i \in 1..Len(engine) :
    (engine[i].kind = "unit" /\ ~engine[i].stale) =>
      /\ currentIdx < Len(sentences)
      /\ engine[i].text = Trim(sentences[currentIdx + 1])

\* C14: stopPlayback and handleSelectStop cancel the outstanding utterances
\* before anything else: right after them the engine holds nothing of the
\* old narration, and the engine never holds an utterance of an ended
\* narration together with one of the current narration.
C14_CancelBeforeNewState ==
  /\ (last.op = "stopPlayback" /\ events = <<>>) => engine = <<>>
  /\ (last.op = "handleSelectStop" /\ events = <<>>) =>
        (Len(engine) <= 1 /\ \A i \in 1..Len(engine) : engine[i].kind = "opening")
  /\ ~ \E i, j \in 1..Len(engine) : engine[i].stale /\ ~engine[j].stale

\* C15: playFrom called with an index beyond the last unit of its array
\* leaves the state Idle and issues no utterance.
C15_PlayFromBeyondEndIsIdle ==
  (last.call # <<>> /\ last.call[1].index >= last.call[1].len) =>
    (last.spoke = <<>> /\ State = "Idle" /\ ~isSpeaking)

\* C15 happens: a completion callback called playFrom past the end of a
\* script with more than one unit.
C15_Witness ==
  /\ last.op = "playFromOnDone"
  /\ last.call # <<>>
  /\ last.call[1].index >= last.call[1].len
  /\ last.pre.state = "Speaking"
  /\ State = "Idle"

\* C16: after every handler and callback the refs mirror the rendered
\* state: isPausedRef = isPaused and currentIdxRef = currentIdx.
C16_RefsMirrorState ==
  isPausedRef = isPaused /\ currentIdxRef = currentIdx

\* C17: togglePlayback and the callbacks leave the script unchanged, and
\* while a stop is selected every unit they speak is a unit of the script
\* built by that selection.
C17_ScriptOnlyChangedBySelectAndStop ==
  [][ /\ last'.op \notin {"handleSelectStop", "stopPlayback"} =>
           sentences' = sentences
      /\ (/\ last'.op \notin {"handleSelectStop", "stopPlayback"}
          /\ last' # last
          /\ selectedStop' # NoStop) =>
           \A k \in 1..Len(last'.spoke) :
             \E i \in 1..Len(sentences') : last'.spoke[k] = Trim(sentences'[i])
    ]_vars

\* ------------------------------------------------------ segmentation claims
HasTerminator(text) == \E i \in 1..Len(text) : IsTerm(text[i])

Blank(text) == text = NoDescription \/ \A i \in 1..Len(text) : IsSpace(text[i])

\* The pieces of text that end at the positions in cuts, in order, each
\* trimmed.
PiecesAt(text, cuts) ==
  [j \in 1..Cardinality(cuts) |->
     LET c     == CHOOSE d \in cuts : Cardinality({e \in cuts : e <= d}) = j
         prev  == {e \in cuts : e < c}
         start == IF prev = {} THEN 1
                  ELSE 1 + CHOOSE e \in prev : \A f \in prev : f <= e
     IN  Trim(SubSeq(text, start, c))]

\* The terminator-delimited pieces of text: each ends with the last
\* terminator of a run of terminators.
TerminatorPieces(text) ==
  PiecesAt(text, {i \in 1..Len(text) :
                    IsTerm(text[i]) /\ (i = Len(text) \/ ~IsTerm(text[i + 1]))})

\* The units of section 4.1: each ends with a terminator that is followed by
\* white space or by the end of the text.
BoundaryPieces(text) ==
  PiecesAt(text, {i \in 1..Len(text) :
                    IsTerm(text[i]) /\ (i = Len(text) \/ IsSpace(text[i + 1]))})

WellFormedUnits ==
  /\ Len(sentences) >= 1
  /\ \A k \in 1..Len(sentences) :
       /\ Len(sentences[k]) >= 1
       /\ ~IsSpace(sentences[k][1])
       /\ ~IsSpace(sentences[k][Len(sentences[k])])

ExampleText ==
  <<"S","e","e"," ","t","h","e"," ","a","r","c","h","."," ","B","u","i","l","t"," ","i","n"," ","1","9","0","0","!">>

\* C19: a unit ends only at a terminator followed by white space or by the
\* end of the text (checked on descriptions that begin with a character
\* other than a terminator and end with a terminator), and the example of
\* section 8 gives its two units.
C19_CutsOnlyBeforeWhitespace ==
  /\ CleanChunks(ExampleText) =
       <<<<"S","e","e"," ","t","h","e"," ","a","r","c","h",".">>,
         <<"B","u","i","l","t"," ","i","n"," ","1","9","0","0","!">>>>
  /\ (last.op = "handleSelectStop" /\ ~Blank(description)
        /\ ~IsTerm(Trim(description)[1])
        /\ IsTerm(Trim(description)[Len(Trim(description))])) =>
       sentences = BoundaryPieces(Trim(description))

\* C20: for an absent, empty or white-space-only description the script is
\* the placeholder alone, and the opening utterance is the title followed
\* by the placeholder.
C20_BlankGivesPlaceholder ==
  (last.op = "handleSelectStop" /\ Blank(description)) =>
    /\ sentences = <<Placeholder>>
    /\ last.spoke = <<Title(selectedStop) \o <<".", " ">> \o Placeholder>>

\* C20 happens: a description of two or more white-space characters.
C20_Witness ==
  /\ last.op = "handleSelectStop"
  /\ description # NoDescription
  /\ Len(description) >= 2
  /\ Blank(description)
  /\ sentences = <<Placeholder>>

\* C21: a description that is not blank and has no terminator gives exactly
\* one unit, the whole description trimmed.
C21_NoTerminatorGivesOneUnit ==
  (last.op = "handleSelectStop" /\ ~Blank(description)
     /\ ~HasTerminator(description)) =>
    sentences = <<Trim(description)>>

\* C21 happens: letters with white space before, between and after them.
C21_Witness ==
  /\ last.op = "handleSelectStop"
  /\ ~Blank(description)
  /\ ~HasTerminator(description)
  /\ Len(description) = MaxLen
  /\ IsSpace(description[1])
  /\ IsSpace(description[MaxLen])
  /\ Len(sentences) = 1
  /\ Len(sentences[1]) = MaxLen - 2

\* The utterances of the current narration that the UI thread has not seen
\* finish, in the order they were issued.
InFlight ==
  SelectSeq([i \in 1..Len(events) |->
               [kind |-> events[i].kind, text |-> events[i].text,
                stale |-> events[i].stale]]
            \o [i \in 1..Len(engine) |->
               [kind |-> engine[i].kind, text |-> engine[i].text,
                stale |-> engine[i].stale]],
            LAMBDA u : ~u.stale)

\* The text begins with the title of a stop followed by ". ".
StartsWithTitle(text) ==
  \E stop \in Stops :
    LET prefix == Title(stop) \o <<".", " ">>
    IN  Len(text) >= Len(prefix) /\ SubSeq(text, 1, Len(prefix)) = prefix

\* C22: the utterance issued by handleSelectStop is the title followed by
\* unit 0; no other handler or callback issues it, so it is issued once per
\* selection, and it is issued before every unit of that script.
C22_OpeningUtteranceOnceAndFirst ==
  /\ last.op = "handleSelectStop" =>
       /\ last.spoke = <<Title(selectedStop) \o <<".", " ">> \o sentences[1]>>
       /\ engine = <<Utterance(last.spoke[1], "opening", sentences, 0, FALSE)>>
          \/ (engine = <<>> /\ events # <<>>)
  /\ last.op # "handleSelectStop" =>
       \A k \in 1..Len(last.spoke) : ~StartsWithTitle(last.spoke[k])
  /\ \A i \in 1..Len(InFlight) : InFlight[i].kind = "opening" => i = 1
  /\ clean => (/\ spoken[1] = Title(selectedStop) \o <<".", " ">> \o sentences[1]
               /\ \A k \in 2..Len(spoken) : spoken[k] # spoken[1])

\* C22 happens: the opening utterance has completed and a unit of the same
\* script has been issued after it.
C22_Witness ==
  /\ clean
  /\ Len(spoken) = 2
  /\ last.op = "openingOnDone"
  /\ Len(engine) = 1
  /\ engine[1].kind = "unit"

\* White space removed from a text.
Squeeze(text) == SelectSeq(text, LAMBDA c : ~IsSpace(c))

\* The units one after the other.
RECURSIVE Concat(_)
Concat(units) ==
  IF units = <<>> THEN <<>> ELSE Head(units) \o Concat(Tail(units))

\* C29: no text is lost: the characters of the units other than white
\* space, in order, are those of the description (checked on descriptions
\* that begin with a character other than a terminator).
C29_SegmentationLosesNoText ==
  (last.op = "handleSelectStop" /\ ~Blank(description)
     /\ ~IsTerm(Trim(description)[1])) =>
    Squeeze(Concat(sentences)) = Squeeze(description)

\* C23: whenever the state is Idle the engine holds no outstanding utterance
\* of the current narration (checked after the handlers and the callbacks of
\* the current narration).
C23_IdleMeansSilent ==
  (State = "Idle" /\ ~last.stale) => \A i \in 1..Len(engine) : engine[i].stale

\* C24: the flags are never isSpeaking = false with isPaused = true.
C24_PausedOnlyWhileSpeaking ==
  ~(~isSpeaking /\ isPaused)

\* C25: a completion or error callback that runs while the state is Paused
\* issues no utterance and leaves the state Paused; from Paused only a
\* resume (togglePlayback) or handleSelectStop issues an utterance.
C25_NoUtteranceWhilePaused ==
  /\ (last.op \in DoneCallbacks \cup ErrorCallbacks
        /\ last.pre.state = "Paused")
       => (last.spoke = <<>> /\ isPaused)
  /\ (last.pre.state = "Paused" /\ last.spoke # <<>>)
       => last.op \in {"resume", "handleSelectStop"}

\* C25 happens: a unit with a successor completes while the state is Paused.
C25_Witness ==
  /\ last.op = "playFromOnDone"
  /\ last.pre.state = "Paused"
  /\ last.pre.isSpeaking
  /\ currentIdx + 1 < Len(sentences)
  /\ isPaused

\* C26: every narration started by a selection eventually reaches Idle
\* (isSpeaking false), when the engine answers every utterance with a
\* completion or an error and the user does nothing more.
C26_NarrationReachesIdle ==
  (last.op = "handleSelectStop") ~> ~isSpeaking

\* C27: between a selection and the next selection or stop the cursor never
\* decreases.
C27_CursorNeverDecreases ==
  [][ last'.op \notin {"handleSelectStop", "stopPlayback"} =>
        currentIdx' >= currentIdx ]_vars

\* C28: after the screen is unmounted no utterance is issued, also when a
\* completion callback of an earlier utterance is delivered afterwards.
C28_NoUtteranceAfterUnmount ==
  ~mounted => (last.spoke = <<>> /\ engine = <<>>)

====
